---- MODULE Spec2Model ----
(***************************************************************************)
(* The RDP probe host: the discovery / handshake / telemetry session       *)
(* engine of the five scripts of the repository.                           *)
(*                                                                         *)
(*   "main"        src/Roastmaster_RDP_Probe_Host_Pi.py                    *)
(*   "dev9"        src/RDP_Host_Pi_develop_0-0-9.py                        *)
(*   "dev13"       src/RDP_Host_Pi_develop_0-0-13.py                       *)
(*   "tester"      src/RDP_Host_Pi_tester_0-0-7.py                         *)
(*   "force_feed"  src/RDP_Host_Pi_force_feed_0-6.py                       *)
(*                                                                         *)
(* The scripts share one design (ProbeHost / MockProbeHost with            *)
(* read_incoming, send_syn, send_temps, run); the model is that design     *)
(* with the places where the scripts differ selected by `variant`.         *)
(*                                                                         *)
(* Time is counted in half seconds, the finest grain of the configured     *)
(* timers (TEMP_SEND_RATE = 0.5).  A Python value that reaches a           *)
(* comparison is a pair <<type, spelling>>, so that 2 and "2" differ and   *)
(* str() is a real conversion.                                             *)
(***************************************************************************)
EXTENDS Integers, Sequences, FiniteSets, TLC

VARIABLES
    variant,         \* which script is running (fixed at start)
    state,           \* self.state
    server_address,  \* self.server_address
    last_sync_time,  \* self.last_sync_time
    last_temp_time,  \* self.last_temp_time
    start_time,      \* self.start_time (force_feed only, 0 elsewhere)
    send_count,      \* self.send_count (main, dev13; 0 elsewhere)
    probes,          \* self.probes: the configured channels and their memory
    current_time,    \* run's current_time: the last reading of time.monotonic()
    pc,              \* where run is: "loop_top", "dispatch" or "crashed"
    err,             \* the exception that ended run, "none" while it runs
    rx,              \* what recvfrom returned in this iteration (until the dispatch)
    out,             \* the datagrams handed to sendto in this iteration
    publish,         \* what write_web_log did in this iteration
    hist             \* history: what has been received and sent so far

vars == <<variant, state, server_address, last_sync_time, last_temp_time,
          start_time, send_count, probes, current_time, pc, err, rx, out,
          publish, hist>>

\* The fields the specification calls the session.
session == <<state, server_address, last_sync_time, last_temp_time,
             start_time, send_count>>

-----------------------------------------------------------------------------
(* Bounds of the model *)

MaxStart == 1      \* time.monotonic() at construction is in 0..MaxStart
MaxTime  == 15     \* the run is followed while time.monotonic() <= MaxTime
MaxSends == 4      \* ... and while send_count < MaxSends
MaxReportTime == 4 \* the report cycles are followed while time.monotonic() < MaxReportTime

\* What one loop iteration adds to time.monotonic(): the 10 ms sleep leaves it
\* in the same half second or, with the LED blinks, takes it to the next
Steps == {0, 1}

-----------------------------------------------------------------------------
(* Configuration and protocol constants *)

Variants == {"main", "dev9", "dev13", "tester", "force_feed"}
Mock == {"tester", "force_feed"}

HalfSeconds(whole, halves) == 2 * whole + halves

HOST_SERIAL(v) ==
    CASE v = "main" -> "424242"
      [] v \in Mock -> "Mock Probe Host"
      [] OTHER      -> "My Probe Host"

SERVER_PORT == 5050
MULTICAST_GROUP == "224.0.0.1"
SYNC_SEND_RATE == HalfSeconds(2, 0)
TEMP_SEND_RATE(v) == IF v = "main" THEN HalfSeconds(1, 0) ELSE HalfSeconds(0, 1)
FORCE_START_DELAY == HalfSeconds(6, 0)

RDP_VERSION_1_0 == "RDP_1.0"
EVENT_SYN == 1
EVENT_ACK == 2
EVENT_TEMP == 3

META_BT == 3000
META_MET == 3002
META_EXHAUST == 3004
META_AMBIENT == 3005
NoMeta == 0          \* main's probes carry no meta type

SEARCHING == 0
CONNECTED == 1

\* Python values
PyNone == <<"none", "None">>
PyStrVal(s) == <<"str", s>>
PyIntVal(n) == <<"int", ToString(n)>>
\* str(x): the spelling of x as a str
str(x) == <<"str", x[2]>>

NoAddress == <<"None", 0>>                       \* server_address = None
MulticastTarget == <<MULTICAST_GROUP, SERVER_PORT>>
Truthy(addr) == addr # NoAddress                 \* `if self.server_address:`

-----------------------------------------------------------------------------
(* Inbound datagrams: what sock.recvfrom can return *)

Absent == <<"absent", "">>       \* the key is not in the JSON object

\* Where a datagram comes from: a second collector, and a source port that
\* is not the configured port
Sources == {<<"10.0.0.5", 6000>>, <<"10.0.0.9", SERVER_PORT>>}
ContentAddress == <<"192.168.1.77", 7000>>   \* an address written in the content

\* kind: how far the bytes get through decode('utf-8') and json.loads
Kinds == {"bad_utf8", "not_json", "json_array", "json_number", "json_string",
          "json_null", "json_object"}

Versions == {PyStrVal(RDP_VERSION_1_0), PyStrVal("RDP_2.0")}
Serials(v) == {PyStrVal(HOST_SERIAL(v)), PyStrVal("Other Host")}
EventTypes == {PyIntVal(EVENT_SYN), PyIntVal(EVENT_ACK),
               PyStrVal(ToString(EVENT_ACK)), Absent}

\* A JSON object with the keys read_incoming looks at
Objects(v) ==
    [kind : {"json_object"}, RPVersion : Versions, RPSerial : Serials(v),
     RPEventType : EventTypes, RPAddress : {ContentAddress}]

\* Bytes that are no JSON object
NonObjects ==
    [kind : Kinds \ {"json_object"}, RPVersion : {Absent}, RPSerial : {Absent},
     RPEventType : {Absent}, RPAddress : {ContentAddress}]

\* Whether the object names this protocol version and this host
Addressed(v, packet) ==
    /\ packet.kind = "json_object"
    /\ packet.RPVersion = PyStrVal(RDP_VERSION_1_0)
    /\ packet.RPSerial = PyStrVal(HOST_SERIAL(v))

\* The datagrams that can reach script v: those addressed to it come from
\* either source, the others from the first
Datagrams(v) ==
    {d \in [data : Objects(v) \cup NonObjects, addr : Sources] :
        Addressed(v, d.data) \/ d.addr = <<"10.0.0.5", 6000>>}

\* recvfrom raised BlockingIOError: nothing is pending
NoData == [data |-> [kind |-> "none", RPVersion |-> Absent, RPSerial |-> Absent,
                     RPEventType |-> Absent, RPAddress |-> ContentAddress],
           addr |-> NoAddress]

\* data.decode('utf-8') raises UnicodeDecodeError
DecodeRaises(data) == data.kind = "bad_utf8"
\* json.loads(message) raises json.JSONDecodeError
LoadsRaises(data) == data.kind = "not_json"
\* packet.get exists only on a dict: a list, number, str or None raises AttributeError
GetRaises(data) == data.kind \in {"json_array", "json_number", "json_string", "json_null"}
\* packet.get(key): the value, None when the key is absent
Get(packet, key) == IF packet[key] = Absent THEN PyNone ELSE packet[key]

\* (mutant: any event type passes)
IsAckEvent_AnyType(v, packet) == TRUE

\* The event-type test of read_incoming
IsAckEvent(v, packet) ==
    IF v = "main"
    THEN Get(packet, "RPEventType") = str(PyIntVal(EVENT_ACK))
    ELSE str(Get(packet, "RPEventType")) = str(PyIntVal(EVENT_ACK))

\* (mutant: the version is not compared)
IsValidAck_NoVersion(v, packet) ==
    /\ Get(packet, "RPSerial") = PyStrVal(HOST_SERIAL(v))
    /\ IsAckEvent(v, packet)

\* (mutant: the identity is not compared)
IsValidAck_NoSerial(v, packet) ==
    /\ Get(packet, "RPVersion") = PyStrVal(RDP_VERSION_1_0)
    /\ IsAckEvent(v, packet)

\* The whole condition of read_incoming's `if`
IsValidAck(v, packet) ==
    /\ Get(packet, "RPVersion") = PyStrVal(RDP_VERSION_1_0)
    /\ Get(packet, "RPSerial") = PyStrVal(HOST_SERIAL(v))
    /\ IsAckEvent(v, packet)

\* Which exceptions read_incoming's handlers catch besides BlockingIOError
\* and json.JSONDecodeError: the tester has `except Exception`.
CatchesAll(v) == v = "tester"

\* The outcome of read_incoming on what recvfrom returned
ReadOutcome(v, d) ==
    CASE d = NoData               -> "no_data"
      [] DecodeRaises(d.data)     -> IF CatchesAll(v) THEN "swallowed" ELSE "UnicodeDecodeError"
      [] LoadsRaises(d.data)      -> "not_json"
      [] GetRaises(d.data)        -> IF CatchesAll(v) THEN "swallowed" ELSE "AttributeError"
      [] IsValidAck(v, d.data)    -> "accepted"
      [] OTHER                    -> "rejected"

\* (mutant: the whole source address, port included)
AcceptedAddress_SourcePort(d) == d.addr

\* The address recorded on acceptance
AcceptedAddress(d) == <<d.addr[1], SERVER_PORT>>

-----------------------------------------------------------------------------
(* The configured channels and the sensor reads *)

NoneVal == -1                    \* p["val"] / p["temp"] is None
Vals == {21536, 19994}           \* readings, in thousandths (21.536, 19.994)
FakeVals == {21534}              \* what generate_fake_data computes

Probe(c, m) == [channel |-> c, meta_type |-> m, val |-> NoneVal, error |-> FALSE]

\* self.probes after __init__: each sensor's initialisation succeeds or fails
ProbeConfigs(v) ==
    CASE v = "main" -> {<<>>, <<Probe(1, NoMeta)>>}
      [] v \in Mock -> {<<Probe(1, META_BT), Probe(2, META_EXHAUST),
                          Probe(3, META_AMBIENT), Probe(4, META_MET)>>}
      [] OTHER      -> {mcp \o scd :
                          mcp \in {<<>>, <<Probe(1, META_BT)>>},
                          scd \in {<<>>, <<Probe(2, META_EXHAUST),
                                           Probe(3, META_AMBIENT),
                                           Probe(4, META_MET)>>}}

\* The configurations the session specification starts from: the mock
\* scripts' four channels; on hardware no sensor or the first one alone
\* (init_scd41 took its except branch)
SessionProbeConfigs(v) == {c \in ProbeConfigs(v) : v \in Mock \/ Len(c) <= 1}

\* What one read of one channel can do
ReadOk(x) == <<"ok", x>>
ReadNone == <<"none", 0>>
ReadRuntimeError == <<"RuntimeError", 0>>
ReadOtherError == <<"OSError", 0>>
ReadResults(v) ==
    CASE v \in Mock -> {ReadOk(x) : x \in FakeVals}
      [] v = "main" -> {ReadOk(x) : x \in Vals}
                          \cup {ReadNone, ReadRuntimeError, ReadOtherError}
      [] OTHER      -> \* one handler, `except Exception`, for every exception
                       {ReadOk(x) : x \in Vals} \cup {ReadNone, ReadOtherError}

\* One probe after its read: read_sensors (dev9, dev13), read_probes (main);
\* the mock scripts keep no reading in self.probes.
ProbeAfterRead(v, p, r) ==
    CASE v \in Mock -> p
      [] v = "main" ->
            IF r[1] = "ok" THEN [p EXCEPT !.val = r[2], !.error = FALSE]
            ELSE IF r[1] = "none" THEN [p EXCEPT !.val = NoneVal, !.error = FALSE]
            ELSE [p EXCEPT !.val = NoneVal, !.error = TRUE]
      [] OTHER ->
            IF r[1] = "ok" THEN [p EXCEPT !.val = r[2], !.error = FALSE]
            ELSE [p EXCEPT !.error = TRUE]

\* Whether a read's exception leaves the read loop: main catches RuntimeError only
ReadEscapes(v, r) == v = "main" /\ r = ReadOtherError

\* The index of the first read whose exception escapes, 0 when none does
FirstEscape(v, reads) ==
    LET bad == {i \in DOMAIN reads : ReadEscapes(v, reads[i])}
    IN IF bad = {} THEN 0 ELSE CHOOSE i \in bad : \A j \in bad : i <= j

\* self.probes after the read loop over reads (one result per probe)
ProbesAfterReads(v, ps, reads) ==
    LET k == FirstEscape(v, reads)
    IN [i \in DOMAIN ps |->
          IF k = 0 \/ i < k THEN ProbeAfterRead(v, ps[i], reads[i]) ELSE ps[i]]

\* "{:.2f}".format(x) and round(x, 2): thousandths to hundredths
Fmt2(x) == (x + 5) \div 10

\* (mutant: the error flag is not looked at)
EncodeValue_IgnoreError(v, p, r) ==
    IF v \in Mock THEN <<"str:.2f", Fmt2(r[2])>>
    ELSE IF p.val # NoneVal THEN <<"str:.2f", Fmt2(p.val)>> ELSE <<"str:null", 0>>

\* RPValue of one channel
EncodeValue(v, p, r) ==
    CASE v = "tester"     -> <<"str:.2f", Fmt2(r[2])>>
      [] v = "force_feed" -> <<"number:round2", Fmt2(r[2])>>
      [] v = "main"       -> IF p.val # NoneVal THEN <<"str:.2f", Fmt2(p.val)>>
                             ELSE <<"str:null", 0>>
      [] v = "dev13"      -> IF ~p.error /\ p.val # NoneVal
                             THEN <<"str:.2f", Fmt2(p.val)>> ELSE <<"str:null", 0>>
      [] OTHER            -> IF ~p.error /\ p.val # NoneVal
                             THEN <<"number", p.val>> ELSE <<"null", 0>>

\* One record of the Temp payload (p is the probe after its read)
TempEvent(v, p, r) ==
    IF v = "main"
    THEN [RPEventType |-> EVENT_TEMP, RPChannel |-> p.channel,
          RPValue |-> EncodeValue(v, p, r)]
    ELSE [RPEventType |-> EVENT_TEMP, RPChannel |-> p.channel,
          RPValue |-> EncodeValue(v, p, r), RPMetaType |-> p.meta_type]

\* (mutant: a channel whose value is the null marker is left out)
TempPayload_SkipNull(v, ps, reads) ==
    SelectSeq([i \in DOMAIN ps |-> TempEvent(v, ps[i], reads[i])],
              LAMBDA e : e.RPValue[1] \notin {"str:null", "null"})

\* payload_list of send_temps
TempPayload(v, ps, reads) == [i \in DOMAIN ps |-> TempEvent(v, ps[i], reads[i])]

\* (mutant: send_temps without the test of the payload list)
SkipsCycle_Never(v, payload) == FALSE

\* send_temps: `if not payload_list: return` (the mock scripts, whose four
\* channels are fixed, have no such test)
SkipsCycle(v, payload) == v \notin Mock /\ payload = <<>>

\* payload_array of send_syn
SynPayload == <<[RPEventType |-> EVENT_SYN]>>

-----------------------------------------------------------------------------
(* Outbound messages *)

UsesCounter(v) == v \in {"main", "dev13"}      \* RPEpoch is self.send_count
WallTimes == {0, 1}                            \* readings of time.time()

\* KEY_EPOCH: the counter, or the wall clock reading w
Epoch(v, count, w) == IF UsesCounter(v) THEN <<"count", count>> ELSE <<"time", w>>

(* json.dumps: the JSON text of the payload list.  The text of an array is
   the sequence of its elements' texts, the text of an object the sequence of
   its members <<key text, value text>> in the dict's insertion order. *)

DumpsInt(n) == ToString(n)
DumpsStr(s) == "\"" \o s \o "\""

\* The decimal spelling of x hundredths and of x thousandths (the readings
\* of Vals and FakeVals end in no zero, which a float's repr would drop)
TwoDigits(n) == IF n < 10 THEN "0" \o ToString(n) ELSE ToString(n)
Hundredths(x) == ToString(x \div 100) \o "." \o TwoDigits(x % 100)
Thousandths(x) ==
    ToString(x \div 1000) \o "."
        \o (IF x % 1000 < 100 THEN "0" ELSE "") \o TwoDigits(x % 1000)

\* The text of RPValue: a str, a float or None
DumpsValue(val) ==
    CASE val[1] = "str:.2f"       -> DumpsStr(Hundredths(val[2]))
      [] val[1] = "number:round2" -> Hundredths(val[2])
      [] val[1] = "str:null"      -> DumpsStr("null")
      [] val[1] = "number"        -> Thousandths(val[2])
      [] OTHER                    -> "null"

\* The keys of a payload record in the order the dict literal names them
KeyOrder == <<"RPEventType", "RPChannel", "RPValue", "RPMetaType">>

\* The text of the member with key k, if the dict has it
DumpsMember(e, k) ==
    IF k \in DOMAIN e
    THEN << <<DumpsStr(k),
              IF k = "RPValue" THEN DumpsValue(e[k]) ELSE DumpsInt(e[k])>> >>
    ELSE <<>>

DumpsEvent(e) ==
    DumpsMember(e, KeyOrder[1]) \o DumpsMember(e, KeyOrder[2])
        \o DumpsMember(e, KeyOrder[3]) \o DumpsMember(e, KeyOrder[4])

\* json.dumps(payload_list)
Dumps(events) == [i \in DOMAIN events |-> DumpsEvent(events[i])]

\* KEY_PAYLOAD: json.dumps(list), a string, except in dev9, which nests the
\* list; events is the list that was encoded, text its JSON text
EncodePayload(v, events) ==
    IF v = "dev9" THEN [as |-> "list", events |-> events, text |-> Dumps(events)]
    ELSE [as |-> "string", events |-> events, text |-> Dumps(events)]

(* The collector's side of the codec: json.loads of the payload text *)

\* The integers a payload record can hold: event types, channels, meta types
JsonInts == (0 .. 9) \cup (META_BT .. META_AMBIENT)

LoadsInt(text) == CHOOSE n \in JsonInts : DumpsInt(n) = text
LoadsKey(text) == CHOOSE k \in {KeyOrder[i] : i \in DOMAIN KeyOrder} : DumpsStr(k) = text

\* One JSON object: its keys with their values (RPValue is left as text)
LoadsEvent(text) ==
    LET At(k) == CHOOSE i \in DOMAIN text : LoadsKey(text[i][1]) = k
    IN [k \in {LoadsKey(text[i][1]) : i \in DOMAIN text} |->
          IF k = "RPValue" THEN text[At(k)][2] ELSE LoadsInt(text[At(k)][2])]

Loads(text) == [i \in DOMAIN text |-> LoadsEvent(text[i])]

\* The payload records a receiver gets out of the bytes of a datagram
Decode(bytes) == Loads(bytes.json.RPPayload.text)

\* (mutant: the event type is a key of the datagram too)
Message_WithEventType(v, epoch, events) ==
    [RPVersion |-> RDP_VERSION_1_0, RPSerial |-> HOST_SERIAL(v),
     RPEpoch |-> epoch, RPEventType |-> EVENT_SYN,
     RPPayload |-> EncodePayload(v, events)]

\* The datagram dict
Message(v, epoch, events) ==
    [RPVersion |-> RDP_VERSION_1_0, RPSerial |-> HOST_SERIAL(v),
     RPEpoch |-> epoch, RPPayload |-> EncodePayload(v, events)]

\* msg_bytes: json.dumps(datagram).encode('utf-8'), plus b'\r\n' in force_feed
Encode(v, msg) == [json |-> msg, terminator |-> IF v = "force_feed" THEN "\r\n" ELSE ""]

\* One call of sock.sendto
Sent(bytes, target) == [bytes |-> bytes, to |-> target]

\* (mutant: reports keep going to the multicast group)
TempTarget_Multicast(v, addr) == MulticastTarget

\* Where send_temps sends: None when it does not send
TempTarget(v, addr) ==
    IF Truthy(addr) THEN addr
    ELSE IF v = "force_feed" THEN MulticastTarget ELSE NoAddress

\* (mutant: write_web_log without its try)
WebLogEscapes_Uncaught(v, logOk) == ~logOk

\* Whether a failure inside write_web_log leaves it: `except Exception` holds
\* open, json.dump and os.replace, so none does
WebLogEscapes(v, logOk) == FALSE

\* What write_web_log did: the file was replaced, or the failure was swallowed
WebLogResult(logOk) == IF logOk THEN "written" ELSE "failed"

\* Whether send_temps calls write_web_log for a non-empty payload: main calls
\* it under `if self.server_address`, the others before that test
WebLogCalled(v, addr) == v = "main" => Truthy(addr)

\* The event type a sent datagram carries (in its payload's first record)
EventOf(sent) == sent.bytes.json.RPPayload.events[1].RPEventType

\* The ordinal a sent datagram carries in RPEpoch
EpochOf(sent) == sent.bytes.json.RPEpoch[2]

-----------------------------------------------------------------------------
(* The session object and the steps of run *)

\* The fields of self that the protocol engine reads and writes
Self == [state |-> state, server_address |-> server_address,
         last_sync_time |-> last_sync_time, last_temp_time |-> last_temp_time,
         start_time |-> start_time, send_count |-> send_count]

\* (mutant: the Ack resets the discovery timer too)
AcceptAck_ResetSync(v, self, d) ==
    [self EXCEPT !.server_address = AcceptedAddress(d), !.state = CONNECTED,
                 !.last_temp_time = 0, !.last_sync_time = 0]

\* (mutant: the Ack toggles the state)
AcceptAck_Toggle(v, self, d) ==
    [self EXCEPT !.server_address = AcceptedAddress(d),
                 !.state = IF self.state = CONNECTED THEN SEARCHING ELSE CONNECTED,
                 !.last_temp_time = 0]

\* The body of read_incoming's `if`: the assignments on a valid Ack
AcceptAck(v, self, d) ==
    IF v = "force_feed"
    THEN [self EXCEPT !.server_address = AcceptedAddress(d),
                      !.state = CONNECTED, !.start_time = 0]
    ELSE [self EXCEPT !.server_address = AcceptedAddress(d),
                      !.state = CONNECTED, !.last_temp_time = 0]

\* (mutant: the datagram is read after the dispatch, too late to count)
read_incoming_TooLate(v, self, d) == self

\* self after read_incoming, given what recvfrom returned
read_incoming(v, self, d) ==
    IF ReadOutcome(v, d) = "accepted" THEN AcceptAck(v, self, d) ELSE self

\* The exceptions that leave read_incoming, and with it run and the process
Raised == {"UnicodeDecodeError", "AttributeError"}

\* (mutant: the forced start in every script)
ForceStart_Everywhere(v, self, now) ==
    IF self.state = SEARCHING /\ now - self.start_time > FORCE_START_DELAY
    THEN [self EXCEPT !.state = CONNECTED]
    ELSE self

\* run, force_feed only: the forced start before the dispatch
ForceStart(v, self, now) ==
    IF v = "force_feed" /\ self.state = SEARCHING
       /\ now - self.start_time > FORCE_START_DELAY
    THEN [self EXCEPT !.state = CONNECTED]
    ELSE self

\* (mutant: a Syn in every iteration while Searching)
SynDue_NoCadence(self, now) == self.state = SEARCHING

\* run: the two cadence tests
SynDue(self, now) ==
    self.state = SEARCHING /\ now - self.last_sync_time > SYNC_SEND_RATE

\* (mutant: the report cadence is not tied to the state)
TempDue_AnyState(v, self, now) ==
    now - self.last_temp_time > TEMP_SEND_RATE(v)

TempDue(v, self, now) ==
    self.state = CONNECTED /\ now - self.last_temp_time > TEMP_SEND_RATE(v)

\* (mutant: the counter is not advanced)
CountAfterSend_Stuck(v, count) == count

\* send_count after a datagram was sent
CountAfterSend(v, count) == IF UsesCounter(v) THEN count + 1 ELSE count

\* The datagram send_syn hands to sendto
SynDatagram(v, self, w) ==
    Sent(Encode(v, Message(v, Epoch(v, self.send_count, w), SynPayload)),
         MulticastTarget)

\* The datagram send_temps hands to sendto
TempDatagram(v, self, ps, reads, w) ==
    Sent(Encode(v, Message(v, Epoch(v, self.send_count, w),
                           TempPayload(v, ps, reads))),
         TempTarget(v, self.server_address))

(* What the history records about the datagrams received *)

\* The forms of the Ack event type on the wire: the number 2, which is the
\* enum's own value, and the string "2"
AckForms == {PyIntVal(EVENT_ACK), PyStrVal("2")}

\* A valid Ack for script v, as the protocol defines it: a JSON object with
\* the protocol's version, the host's identity and the Ack event type
ProtocolAck(v, d) ==
    /\ d.data.kind = "json_object"
    /\ d.data.RPVersion = PyStrVal(RDP_VERSION_1_0)
    /\ d.data.RPSerial = PyStrVal(HOST_SERIAL(v))
    /\ d.data.RPEventType \in AckForms

\* History: whether a valid Ack has been received, how often state went
\* from SEARCHING to CONNECTED, how many Syn datagrams were sent, whether a
\* Temp datagram was sent, and whether the read_incoming of this iteration
\* took the session from SEARCHING to CONNECTED, and what each channel's
\* read did in the report cycle of this iteration; then, each empty until
\* there is one: the RPEpoch of the last datagram sent, and the current_time
\* of the iteration that sent the last Syn and the last Temp datagram
InitHist == [ackRx |-> FALSE, connects |-> 0, syns |-> 0, tempSent |-> FALSE,
             fresh |-> FALSE, reads |-> <<>>,
             lastEpoch |-> <<>>, lastSynAt |-> <<>>, lastTempAt |-> <<>>]

Init ==
    /\ variant \in Variants
    /\ state = SEARCHING
    /\ server_address = NoAddress
    /\ last_sync_time = 0
    /\ last_temp_time = 0
    /\ current_time \in 0 .. MaxStart
    /\ start_time = IF variant = "force_feed" THEN current_time ELSE 0
    /\ send_count = 0
    /\ probes \in SessionProbeConfigs(variant)
    /\ pc = "loop_top"
    /\ err = "none"
    /\ rx = NoData
    /\ out = <<>>
    /\ publish = "none"
    /\ hist = InitHist

\* Writes the fields of self back
SetSelf(self) ==
    /\ state' = self.state
    /\ server_address' = self.server_address
    /\ last_sync_time' = self.last_sync_time
    /\ last_temp_time' = self.last_temp_time
    /\ start_time' = self.start_time
    /\ send_count' = self.send_count

\* run, the top of the loop: current_time = time.monotonic(); self.read_incoming()
ReadIncoming(d, dt) ==
    /\ pc = "loop_top"
    /\ current_time + dt <= MaxTime
    /\ send_count < MaxSends
    /\ current_time' = current_time + dt
    /\ rx' = d
    /\ out' = <<>>
    /\ publish' = "none"
    /\ LET o == ReadOutcome(variant, d)
           after == read_incoming(variant, Self, d)
       IN /\ SetSelf(after)
          /\ IF o \in Raised
             THEN pc' = "crashed" /\ err' = o
             ELSE pc' = "dispatch" /\ err' = err
          /\ hist' = [hist EXCEPT
                        !.ackRx = @ \/ (d # NoData /\ ProtocolAck(variant, d)),
                        !.connects = IF state = SEARCHING /\ after.state = CONNECTED
                                     THEN @ + 1 ELSE @,
                        !.fresh = state = SEARCHING /\ after.state = CONNECTED,
                        !.reads = <<>>]
    /\ UNCHANGED <<variant, probes>>

\* run, the dispatch: neither cadence is due; time.sleep(0.01)
Idle ==
    /\ pc = "dispatch"
    /\ LET s1 == ForceStart(variant, Self, current_time)
       IN /\ ~SynDue(s1, current_time)
          /\ ~TempDue(variant, s1, current_time)
          /\ SetSelf(s1)
          /\ hist' = [hist EXCEPT
                        !.connects = IF state = SEARCHING /\ s1.state = CONNECTED
                                     THEN @ + 1 ELSE @,
                        !.fresh = FALSE]
    /\ pc' = "loop_top"
    /\ rx' = NoData
    /\ UNCHANGED <<variant, probes, current_time, err, out, publish>>

\* run, the dispatch while Searching: send_syn(); last_sync_time = current_time.
\* sendto succeeds (ok) or raises OSError, which nothing catches.
\* write_web_log succeeds (logOk) or fails inside its try.
SendSynCycle(ok, w, logOk) ==
    /\ pc = "dispatch"
    /\ LET s1 == ForceStart(variant, Self, current_time)
       IN /\ SynDue(s1, current_time)
          /\ IF WebLogEscapes(variant, logOk)
             THEN /\ out' = out
                  /\ SetSelf(s1)
                  /\ hist' = hist
                  /\ pc' = "crashed" /\ err' = "OSError:web_log"
             ELSE IF ok
             THEN /\ out' = <<SynDatagram(variant, s1, w)>>
                  /\ SetSelf([s1 EXCEPT
                        !.send_count = CountAfterSend(variant, @),
                        !.last_sync_time = current_time])
                  /\ hist' = [hist EXCEPT !.syns = @ + 1, !.fresh = FALSE,
                        !.lastEpoch = <<EpochOf(SynDatagram(variant, s1, w))>>,
                        !.lastSynAt = <<current_time>>]
                  /\ pc' = "loop_top" /\ err' = err
             ELSE /\ out' = out
                  /\ SetSelf(s1)
                  /\ hist' = hist
                  /\ pc' = "crashed" /\ err' = "OSError:sendto"
    /\ rx' = IF pc' = "crashed" THEN rx ELSE NoData
    /\ UNCHANGED <<variant, probes, current_time>>

SendSyn(ok, w, logOk) ==
    /\ SendSynCycle(ok, w, logOk)
    /\ publish' = WebLogResult(logOk)

\* run, the dispatch while Connected: send_temps(); last_temp_time = current_time.
\* reads holds the result of each probe's read in this cycle.
SendTempsCycle(reads, ok, w, logOk) ==
    /\ pc = "dispatch"
    /\ LET s1 == ForceStart(variant, Self, current_time)
           ps == ProbesAfterReads(variant, probes, reads)
           dg == TempDatagram(variant, s1, ps, reads, w)
           connects == IF state = SEARCHING /\ s1.state = CONNECTED
                       THEN hist.connects + 1 ELSE hist.connects
       IN /\ TempDue(variant, s1, current_time)
          /\ probes' = ps
          /\ IF FirstEscape(variant, reads) # 0
             THEN \* a sensor exception left read_probes
                  /\ out' = out /\ SetSelf(s1)
                  /\ hist' = [hist EXCEPT !.reads = reads, !.connects = connects]
                  /\ pc' = "crashed" /\ err' = "OSError:sensor"
             ELSE IF \/ SkipsCycle(variant, TempPayload(variant, ps, reads))
                     \/ ~Truthy(TempTarget(variant, s1.server_address))
             THEN \* `if not payload_list: return`, or no address to send to
                  /\ out' = out
                  /\ SetSelf([s1 EXCEPT !.last_temp_time = current_time])
                  /\ hist' = [hist EXCEPT !.reads = reads, !.connects = connects, !.fresh = FALSE]
                  /\ pc' = "loop_top" /\ err' = err
             ELSE IF WebLogCalled(variant, s1.server_address)
                     /\ WebLogEscapes(variant, logOk)
             THEN /\ out' = out /\ SetSelf(s1)
                  /\ hist' = [hist EXCEPT !.reads = reads, !.connects = connects]
                  /\ pc' = "crashed" /\ err' = "OSError:web_log"
             ELSE IF ok
             THEN /\ out' = <<dg>>
                  /\ SetSelf([s1 EXCEPT
                        !.send_count = CountAfterSend(variant, @),
                        !.last_temp_time = current_time])
                  /\ hist' = [hist EXCEPT !.reads = reads, !.connects = connects, !.tempSent = TRUE,
                                           !.fresh = FALSE,
                                           !.lastEpoch = <<EpochOf(dg)>>,
                                           !.lastTempAt = <<current_time>>]
                  /\ pc' = "loop_top" /\ err' = err
             ELSE /\ out' = out /\ SetSelf(s1)
                  /\ hist' = [hist EXCEPT !.reads = reads, !.connects = connects]
                  /\ pc' = "crashed" /\ err' = "OSError:sendto"
    /\ rx' = IF pc' = "crashed" THEN rx ELSE NoData
    /\ UNCHANGED <<variant, current_time>>

SendTemps(reads, ok, w, logOk) ==
    /\ SendTempsCycle(reads, ok, w, logOk)
    /\ publish' =
          IF /\ FirstEscape(variant, reads) = 0
             /\ ~SkipsCycle(variant,
                            TempPayload(variant,
                                        ProbesAfterReads(variant, probes, reads), reads))
             /\ WebLogCalled(variant, ForceStart(variant, Self, current_time).server_address)
          THEN WebLogResult(logOk) ELSE "none"

Next ==
    \/ \E d \in Datagrams(variant) \cup {NoData}, dt \in Steps : ReadIncoming(d, dt)
    \/ Idle
    \/ \E ok \in BOOLEAN, w \in WallTimes, logOk \in BOOLEAN : SendSyn(ok, w, logOk)
    \/ \E reads \in [DOMAIN probes -> ReadResults(variant)],
          ok \in BOOLEAN, w \in WallTimes, logOk \in BOOLEAN :
             SendTemps(reads, ok, w, logOk)

Spec == Init /\ [][Next]_vars

-----------------------------------------------------------------------------
(* The report cycles of a Connected session, over every channel set that
   __init__ can configure *)

PeerOfReports == <<"10.0.0.5", SERVER_PORT>>

\* A session whose first iteration accepted an Ack from 10.0.0.5
InitReport ==
    /\ variant \in Variants
    /\ state = CONNECTED
    /\ server_address = PeerOfReports
    /\ last_sync_time = 0
    /\ last_temp_time = 0
    /\ current_time = 0
    /\ start_time = 0
    /\ send_count = 0
    /\ probes \in ProbeConfigs(variant)
    /\ pc = "loop_top"
    /\ err = "none"
    /\ rx = NoData
    /\ out = <<>>
    /\ publish = "none"
    /\ hist = [InitHist EXCEPT !.ackRx = TRUE, !.connects = 1]

\* run with nothing more arriving: recvfrom raises BlockingIOError
NoDatagram(dt) == current_time < MaxReportTime /\ ReadIncoming(NoData, dt)

\* (the wall clock and write_web_log play no part in the payload)
NextReport ==
    \/ \E dt \in Steps : NoDatagram(dt)
    \/ Idle
    \/ \E reads \in [DOMAIN probes -> ReadResults(variant)], ok \in BOOLEAN :
          SendTemps(reads, ok, 0, TRUE)

ReportSpec == InitReport /\ [][NextReport]_vars

-----------------------------------------------------------------------------
(* Properties *)

\* The step of run that reads the clock and calls read_incoming
ReadStep == pc = "loop_top" /\ pc' # "loop_top"

\* The forced start of force_feed: its delay has passed in Searching
ForcedStartStep ==
    /\ variant = "force_feed"
    /\ pc = "dispatch"
    /\ state = SEARCHING
    /\ current_time - start_time > FORCE_START_DELAY

\* read_incoming has just accepted the datagram rx as a valid Ack
JustAccepted ==
    pc = "dispatch" /\ rx # NoData /\ ReadOutcome(variant, rx) = "accepted"

\* C1 (as claimed): in every reachable state peerAddress is unset exactly
\* when state is Searching, and set exactly when state is Connected.
C1_Original == (server_address = NoAddress) <=> (state = SEARCHING)

\* C1 (amended): peerAddress is unset whenever state is Searching; whenever
\* state is Connected it is set, except in the force_feed script, where the
\* forced start leaves it unset until the first valid Ack is accepted.
C1_PeerAddress ==
    /\ state = SEARCHING => server_address = NoAddress
    /\ state = CONNECTED /\ server_address = NoAddress
          => variant = "force_feed" /\ ~hist.ackRx

\* C1 witnesses: Connected with the address of an accepted Ack, in dev13
C1_Witness ==
    /\ variant = "dev13" /\ state = CONNECTED /\ hist.ackRx
    /\ server_address = <<"10.0.0.9", SERVER_PORT>> /\ hist.tempSent

\* C2 (as claimed): the session goes from Searching to Connected exactly in
\* the read of a datagram that is a valid Ack (a JSON object with the
\* protocol's version, the host's identity and the Ack event type in either
\* of its forms); nothing else, elapsed time included, makes the transition.
C2_Original ==
    [][ (state = SEARCHING /\ state' = CONNECTED)
          <=> (state = SEARCHING /\ ReadStep /\ ProtocolAck(variant, rx')) ]_vars

\* C3 (as claimed): once Connected, every datagram sent is a Temp report
\* addressed to peerAddress, none goes to the multicast group.
C3_Original ==
    state = CONNECTED =>
        \A i \in DOMAIN out :
            /\ EventOf(out[i]) = EVENT_TEMP
            /\ out[i].to = server_address
            /\ out[i].to # MulticastTarget

\* C3 (amended): once Connected, every datagram sent is a Temp report; it is
\* addressed to peerAddress when peerAddress is set, and to the multicast
\* group when it is not, which happens only in the force_feed script between
\* its forced start and the first valid Ack.
C3_ReportsTarget ==
    state = CONNECTED =>
        \A i \in DOMAIN out :
            /\ EventOf(out[i]) = EVENT_TEMP
            /\ server_address # NoAddress => out[i].to = server_address
            /\ server_address = NoAddress =>
                  /\ out[i].to = MulticastTarget
                  /\ variant = "force_feed" /\ ~hist.ackRx

\* C3 witness: a Temp report has just gone to the address of the Ack
C3_Witness ==
    /\ state = CONNECTED /\ pc = "loop_top" /\ Len(out) = 1
    /\ EventOf(out[1]) = EVENT_TEMP
    /\ out[1].to = server_address /\ server_address = <<"10.0.0.5", SERVER_PORT>>

\* C4: the read of a datagram whose version tag or identity is not the
\* expected one (undecodable bytes and non-objects have neither) leaves the
\* session unchanged: state, peerAddress, both timers, the counter.
C4_MismatchLeavesSession ==
    [][ (ReadStep /\ rx' # NoData /\ ~Addressed(variant, rx'.data))
          => session' = session ]_vars

\* C4 witness: an Ack for another host has just been read while Searching
C4_Witness ==
    /\ pc = "dispatch" /\ state = SEARCHING
    /\ rx # NoData /\ rx.data.kind = "json_object"
    /\ rx.data.RPVersion = PyStrVal("RDP_1.0")
    /\ rx.data.RPSerial = PyStrVal("Other Host")
    /\ rx.data.RPEventType = PyIntVal(2)

\* C5 (as claimed): read_incoming raises for no received bytes; bytes that
\* are not UTF-8, text that is not JSON and JSON that is no object are
\* swallowed, the session is unchanged and run goes on to the dispatch.
C5_Original ==
    [][ (ReadStep /\ rx' # NoData /\ rx'.data.kind # "json_object")
          => (pc' = "dispatch" /\ err' = "none" /\ session' = session) ]_vars

\* C6: one iteration of run hands at most one datagram to sendto, and a Temp
\* report is sent only with state Connected.
C6_OnePerTick ==
    /\ Len(out) <= 1
    /\ \A i \in DOMAIN out : EventOf(out[i]) = EVENT_TEMP => state = CONNECTED

\* C6 witness: an iteration has ended Searching with the report timer run
\* out, and its one datagram is a Syn
C6_Witness ==
    /\ pc = "loop_top" /\ state = SEARCHING
    /\ current_time - last_temp_time > TEMP_SEND_RATE(variant)
    /\ Len(out) = 1 /\ EventOf(out[1]) = EVENT_SYN

\* C7 (as claimed): the read of a valid Ack leaves the session Connected,
\* and the session has then gone from Searching to Connected exactly once,
\* whether that Ack is the first one or a later one.
C7_Original ==
    [][ (ReadStep /\ ProtocolAck(variant, rx'))
          => (state' = CONNECTED /\ hist'.connects = 1) ]_vars

\* C8 (as claimed): while no valid Ack has been received, no Temp datagram
\* has been sent.
C8_Original == ~hist.ackRx => ~hist.tempSent

\* C8 (amended): while no valid Ack has been received, no Temp datagram has
\* been sent, except by the force_feed script after its forced start, and
\* those Temp datagrams go to the multicast group.
C8_NoAckNoTemp ==
    (~hist.ackRx /\ hist.tempSent) =>
        /\ variant = "force_feed"
        /\ state = CONNECTED
        /\ current_time - start_time > FORCE_START_DELAY
        /\ \A i \in DOMAIN out : out[i].to = MulticastTarget

\* C8 witness: two discovery intervals without an Ack, Syns sent, no Temp
C8_Witness ==
    /\ variant = "dev13" /\ ~hist.ackRx /\ ~hist.tempSent /\ state = SEARCHING
    /\ hist.syns >= 2 /\ current_time > 2 * SYNC_SEND_RATE

\* C9 (as claimed): while no valid Ack has arrived the agent goes on sending
\* Syn datagrams: it is running, and no iteration ends with the session out
\* of Searching or with its last Syn older than a discovery interval.
C9_Original ==
    ~hist.ackRx =>
        /\ pc # "crashed"
        /\ pc = "loop_top" =>
              state = SEARCHING /\ current_time - last_sync_time <= SYNC_SEND_RATE

\* C10: when a valid Ack has been read, peerAddress is the IP address the
\* datagram came from with the configured port, whatever the datagram's
\* source port and the address written in its content.
C10_PeerAddressFromSource ==
    JustAccepted => server_address = <<rx.addr[1], SERVER_PORT>>

\* C10 witness: an Ack from another port than the configured one, with
\* another address in its content, has been accepted
C10_Witness ==
    /\ JustAccepted /\ rx.addr = <<"10.0.0.5", 6000>>
    /\ rx.data.RPAddress # server_address
    /\ server_address = <<"10.0.0.5", SERVER_PORT>>

\* C11 (as claimed): when read_incoming has just accepted a valid Ack in
\* Searching, the dispatch of the same iteration sends a Temp report to the
\* peer, whatever current_time is (taken with a configured channel).
C11_Original ==
    [][ (pc = "dispatch" /\ JustAccepted /\ hist.fresh /\ probes # <<>>)
          => /\ Len(out') = 1
             /\ EventOf(out'[1]) = EVENT_TEMP
             /\ out'[1].to = server_address ]_vars

\* The iteration's one datagram, just handed to sendto, carries event type e
SendsNow(e) == Len(out') = 1 /\ EventOf(out'[1]) = e

\* C12 (as claimed): last_temp_time changes only in a step that sends a Temp
\* datagram and last_sync_time only in a step that sends a Syn; a report
\* cycle that sends nothing leaves last_temp_time as it was.
C12_Original ==
    [][ /\ last_temp_time' # last_temp_time => SendsNow(EVENT_TEMP)
        /\ last_sync_time' # last_sync_time => SendsNow(EVENT_SYN) ]_vars

\* C12 (amended): last_sync_time changes only in a dispatch that sends a
\* Syn, and becomes current_time.  last_temp_time changes only (a) to 0 in a
\* read_incoming that accepts a valid Ack (not in force_feed), or (b) to
\* current_time in a dispatch whose report cycle ran in Connected: one that
\* sent a Temp datagram, or one that sent nothing because no channel is
\* configured.
C12_TimerUpdates ==
    [][ /\ last_sync_time' # last_sync_time =>
              /\ pc = "dispatch" /\ SendsNow(EVENT_SYN)
              /\ last_sync_time' = current_time
        /\ last_temp_time' # last_temp_time =>
              \/ /\ ReadStep /\ ReadOutcome(variant, rx') = "accepted"
                 /\ variant # "force_feed" /\ last_temp_time' = 0
              \/ /\ pc = "dispatch" /\ state' = CONNECTED
                 /\ last_temp_time' = current_time
                 /\ SendsNow(EVENT_TEMP) \/ (out' = <<>> /\ probes = <<>>) ]_vars

\* C12 witness: a report cycle with no configured channel has ended; it sent
\* nothing and set last_temp_time
C12_Witness ==
    /\ pc = "loop_top" /\ state = CONNECTED /\ probes = <<>> /\ out = <<>>
    /\ ~hist.tempSent /\ last_temp_time = current_time /\ last_temp_time > 0

\* The payload list a sent datagram carries
PayloadOf(sent) == sent.bytes.json.RPPayload.events

\* C13: every Temp payload that is sent has exactly one record for each
\* configured channel, in configuration order, whether the channel's read
\* succeeded or failed.
C13_EveryChannelOnce ==
    \A i \in DOMAIN out :
        EventOf(out[i]) = EVENT_TEMP =>
            /\ Len(PayloadOf(out[i])) = Len(probes)
            /\ \A k \in DOMAIN probes :
                  /\ PayloadOf(out[i])[k].RPChannel = probes[k].channel
                  /\ PayloadOf(out[i])[k].RPEventType = EVENT_TEMP

\* C13 witness: a Temp datagram of four channels has been sent in a cycle in
\* which the first channel was read and the second failed
C13_Witness ==
    /\ pc = "loop_top" /\ Len(out) = 1 /\ EventOf(out[1]) = EVENT_TEMP
    /\ Len(probes) = 4 /\ Len(PayloadOf(out[1])) = 4
    /\ ~probes[1].error /\ probes[1].val # NoneVal /\ probes[2].error

\* An RPValue that is the null marker: the string "null", or JSON null in dev9
IsNullMarker(val) == val[1] \in {"str:null", "null"}

\* An RPValue that carries the reading x: to two decimals, or as it is in dev9
Carries(val, x) ==
    \/ val[1] \in {"str:.2f", "number:round2"} /\ val[2] = Fmt2(x)
    \/ val[1] = "number" /\ val[2] = x

\* C14: in a Temp payload that is sent, a channel's value is the null marker
\* exactly when this cycle's read of the channel failed or returned nothing,
\* and otherwise carries the value read in this cycle; a value remembered
\* from an earlier cycle is not reported for a channel whose read failed.
C14_NullIffFailed ==
    \A i \in DOMAIN out :
        EventOf(out[i]) = EVENT_TEMP =>
            \A k \in DOMAIN PayloadOf(out[i]) :
                LET val == PayloadOf(out[i])[k].RPValue
                    r   == hist.reads[k]
                IN /\ IsNullMarker(val) <=> r[1] # "ok"
                   /\ r[1] = "ok" => Carries(val, r[2])

\* C14 witness: a Temp datagram has been sent whose cycle failed to read a
\* channel that remembers a value of an earlier cycle; its value is null
C14_Witness ==
    /\ pc = "loop_top" /\ Len(out) = 1 /\ EventOf(out[1]) = EVENT_TEMP
    /\ \E k \in DOMAIN probes :
          /\ hist.reads[k][1] # "ok" /\ probes[k].val # NoneVal
          /\ IsNullMarker(PayloadOf(out[1])[k].RPValue)

\* A report cycle runs in this step, the read of some channel fails in it,
\* and sendto does not
CycleWithFailedRead ==
    /\ pc = "dispatch" /\ pc' # "dispatch"
    /\ \E k \in DOMAIN hist'.reads : hist'.reads[k][1] # "ok"
    /\ err' # "OSError:sendto"

\* C15 (as claimed): a report cycle in which the read of a channel fails, in
\* whatever way, is not aborted and leaves the session state alone: run goes
\* on, the cycle's Temp datagram is sent (sendto willing), state and
\* peerAddress are as before.
C15_Original ==
    [][ CycleWithFailedRead =>
          /\ pc' = "loop_top" /\ SendsNow(EVENT_TEMP)
          /\ state' = state /\ server_address' = server_address ]_vars

\* C16 (as claimed): a sendto that fails, for a Syn or a Temp datagram, is
\* ignored: it does not end run.
C16_Original == ~(pc = "crashed" /\ err = "OSError:sendto")

\* C17: a step of run in which write_web_log fails is also the step the code
\* takes when write_web_log succeeds: the same datagram with the same bytes
\* goes to sendto, and state, peerAddress, timers, counter and the loop's
\* position end up the same.
C17_PublishFailureSwallowed ==
    [][ (pc = "dispatch" /\ publish' = "failed") =>
          \/ \E ok \in BOOLEAN, w \in WallTimes : SendSynCycle(ok, w, TRUE)
          \/ \E reads \in [DOMAIN probes -> ReadResults(variant)],
                ok \in BOOLEAN, w \in WallTimes :
                   SendTempsCycle(reads, ok, w, TRUE) ]_vars

\* C17 witness: the iteration's Temp datagram has been sent although
\* write_web_log failed
C17_Witness ==
    /\ pc = "loop_top" /\ publish = "failed"
    /\ Len(out) = 1 /\ EventOf(out[1]) = EVENT_TEMP /\ err = "none"

\* C18: once state is Connected it is Connected in every later state: no
\* received datagram, elapsed time or error takes it back to Searching.
C18_StaysConnected ==
    [][ state = CONNECTED => state' = CONNECTED ]_vars

\* C18 witness: a Connected session that has reported has just read a
\* datagram addressed to it that is no Ack, and is Connected still
C18_Witness ==
    /\ pc = "dispatch" /\ state = CONNECTED /\ hist.tempSent
    /\ rx # NoData /\ Addressed(variant, rx.data)
    /\ rx.data.RPEventType = PyIntVal(EVENT_SYN)

\* C19 (as claimed): a datagram with the protocol's version and the host's
\* identity is accepted as an Ack when its event type is the number 2 and
\* when it is the string "2": after its read the session is Connected to the
\* datagram's source.
C19_Original ==
    (pc = "dispatch" /\ rx # NoData /\ ProtocolAck(variant, rx))
        => (state = CONNECTED /\ server_address = <<rx.addr[1], SERVER_PORT>>)

\* C20: with no channel configured no Temp datagram is ever sent, and no
\* datagram that is sent carries an empty payload list.
C20_EmptyChannelSet ==
    /\ probes = <<>> => ~hist.tempSent
    /\ \A i \in DOMAIN out : PayloadOf(out[i]) # <<>>

\* C20 witness: a report cycle of a Connected dev13 without channels has
\* ended: nothing was sent or published, the counter counts the Syns alone
C20_Witness ==
    /\ variant = "dev13" /\ probes = <<>> /\ state = CONNECTED
    /\ pc = "loop_top" /\ last_temp_time = current_time /\ current_time > 0
    /\ out = <<>> /\ publish = "none" /\ send_count = hist.syns

\* C21 (as claimed): the RPEpoch of a datagram that is sent is never lower
\* than the RPEpoch of the datagram sent before it, Syn or Temp.
C21_Original ==
    [][ (Len(out') = 1 /\ hist.lastEpoch # <<>>)
          => EpochOf(out'[1]) >= hist.lastEpoch[1] ]_vars

\* The keys of the JSON object a sent datagram holds
KeysOf(sent) == DOMAIN sent.bytes.json

\* C22 (as claimed): every datagram that is sent is a JSON object with
\* exactly the five keys RPVersion, RPSerial, RPEpoch, RPEventType, RPPayload.
C22_Original ==
    \A i \in DOMAIN out :
        KeysOf(out[i]) = {"RPVersion", "RPSerial", "RPEpoch", "RPEventType", "RPPayload"}

\* C22 (corrected): every datagram that is sent, Syn or Temp, is a JSON
\* object with exactly the four keys RPVersion, RPSerial, RPEpoch and
\* RPPayload; the event type is a key of each record of the payload.
C22_FourKeys ==
    \A i \in DOMAIN out :
        /\ KeysOf(out[i]) = {"RPVersion", "RPSerial", "RPEpoch", "RPPayload"}
        /\ \A k \in DOMAIN PayloadOf(out[i]) :
              "RPEventType" \in DOMAIN PayloadOf(out[i])[k]

C22_Witness ==
    /\ Len(out) = 1
    /\ EventOf(out[1]) = EVENT_TEMP
    /\ hist.syns > 0

\* C23 (as claimed): in every datagram that is sent, Syn or Temp, RPPayload
\* is a string, the JSON text of the payload list, and never the list itself.
C23_Original ==
    \A i \in DOMAIN out : out[i].bytes.json.RPPayload.as = "string"

\* C24 (as claimed): decoding the bytes of a Temp datagram yields one record
\* for each configured channel, in configuration order, and each record
\* holds the channel id and the meta type of its channel.
C24_Original ==
    \A i \in DOMAIN out :
        EventOf(out[i]) = EVENT_TEMP =>
            LET decoded == Decode(out[i].bytes)
            IN /\ Len(decoded) = Len(probes)
               /\ \A k \in DOMAIN decoded :
                     /\ "RPChannel" \in DOMAIN decoded[k]
                     /\ decoded[k].RPChannel = probes[k].channel
                     /\ "RPMetaType" \in DOMAIN decoded[k]
                     /\ decoded[k].RPMetaType = probes[k].meta_type

\* C25: reading a datagram that names the protocol version and this host
\* but whose event type is not Ack (a Syn's event type, or none at top
\* level, as in the host's own Syn come back from the multicast group and
\* in a Temp datagram) changes neither state nor peerAddress nor the two
\* timers, and run goes on to its dispatch.
C25_NonAckDiscarded ==
    [][ ( /\ ReadStep
          /\ rx' # NoData
          /\ Addressed(variant, rx'.data)
          /\ rx'.data.RPEventType \notin AckForms )
          => /\ UNCHANGED <<state, server_address, last_sync_time, last_temp_time>>
             /\ pc' = "dispatch" ]_vars

\* Connected, after a Syn was sent: a datagram for this host without a
\* top-level event type has been read
C25_Witness ==
    /\ pc = "dispatch"
    /\ rx # NoData
    /\ Addressed(variant, rx.data)
    /\ rx.data.RPEventType = Absent
    /\ hist.syns > 0
    /\ state = CONNECTED
    /\ server_address # NoAddress

\* C26 (as claimed): once peerAddress is set no step changes it, whatever
\* is received while Connected.
C26_Original ==
    [][ server_address # NoAddress => server_address' = server_address ]_vars

\* C27 (as claimed): a Temp datagram that is not the first one is sent more
\* than TEMP_SEND_RATE after the Temp datagram before it, whatever was
\* received in between.
C27_Original ==
    [][ (SendsNow(EVENT_TEMP) /\ hist.lastTempAt # <<>>)
          => current_time - hist.lastTempAt[1] > TEMP_SEND_RATE(variant) ]_vars

\* C28: a Syn datagram is sent only while state is SEARCHING, and a Syn that
\* is not the first one is sent more than SYNC_SEND_RATE after the Syn
\* before it.
C28_SynCadence ==
    [][ SendsNow(EVENT_SYN)
          => /\ state = SEARCHING
             /\ state' = SEARCHING
             /\ hist.lastSynAt # <<>>
                   => current_time - hist.lastSynAt[1] > SYNC_SEND_RATE ]_vars

\* A second Syn has just been sent
C28_Witness ==
    /\ Len(out) = 1
    /\ EventOf(out[1]) = EVENT_SYN
    /\ hist.syns >= 2
    /\ hist.lastSynAt = <<current_time>>

\* C29 (as claimed): while the session is Connected with a channel
\* configured the agent goes on sending Temp datagrams: run has not ended,
\* and no iteration ends with the last report cycle older than a report
\* interval.
C29_Original ==
    (state = CONNECTED /\ probes # <<>>) =>
        /\ pc # "crashed"
        /\ pc = "loop_top" =>
              current_time - last_temp_time <= TEMP_SEND_RATE(variant)

\* C30: an iteration of run calls recvfrom once, before the dispatch, and the
\* dispatch reads no further datagram and decides on the session as
\* read_incoming left it: after an accepted Ack the state is CONNECTED with
\* the Ack's address, no Syn is sent, and whatever is sent was due in that
\* session.  When recvfrom has nothing (BlockingIOError) the session is
\* unchanged, no exception leaves read_incoming and run goes on to the
\* dispatch.
C30_ReadThenTick ==
    [][ /\ ReadStep =>
              /\ pc' \in {"dispatch", "crashed"}
              /\ rx' = NoData =>
                    /\ UNCHANGED session
                    /\ pc' = "dispatch"
                    /\ err' = err
        /\ pc = "dispatch" =>
              /\ rx' \in {NoData, rx}
              /\ current_time' = current_time
              /\ JustAccepted =>
                    /\ state = CONNECTED
                    /\ server_address = AcceptedAddress(rx)
                    /\ ~SendsNow(EVENT_SYN)
              /\ SendsNow(EVENT_SYN) =>
                    SynDue(ForceStart(variant, Self, current_time), current_time)
              /\ SendsNow(EVENT_TEMP) =>
                    TempDue(variant, ForceStart(variant, Self, current_time),
                            current_time) ]_vars

\* The first Ack has just been read in an iteration in which, without it,
\* a Syn would have been due
C30_Witness ==
    /\ pc = "dispatch"
    /\ JustAccepted
    /\ hist.fresh
    /\ hist.syns > 0
    /\ current_time - last_sync_time > SYNC_SEND_RATE

\* C31: in the scripts whose RPEpoch is send_count, the first datagram sent
\* carries 0 and every later one the epoch of the datagram before it plus
\* one, Syn or Temp; send_count is 0 until the first datagram, grows by one
\* in a step that sends a datagram and is unchanged by every other step.
C31_CounterEpochs ==
    [][ UsesCounter(variant) =>
          /\ hist.lastEpoch = <<>> => send_count = 0
          /\ (pc = "dispatch" /\ out' # <<>>) =>
                /\ Len(out') = 1
                /\ out'[1].bytes.json.RPEpoch[1] = "count"
                /\ EpochOf(out'[1]) =
                      IF hist.lastEpoch = <<>> THEN 0 ELSE hist.lastEpoch[1] + 1
                /\ send_count' = send_count + 1
          /\ ~(pc = "dispatch" /\ out' # <<>>) => send_count' = send_count ]_vars

\* A Temp datagram with epoch 2 has just been sent after at least one Syn
C31_Witness ==
    /\ UsesCounter(variant)
    /\ Len(out) = 1
    /\ EventOf(out[1]) = EVENT_TEMP
    /\ EpochOf(out[1]) = 2
    /\ hist.syns > 0
    /\ send_count = 3

\* C32 (as claimed): in the force_feed script the forced start leaves the
\* session CONNECTED without a peerAddress and what it sends then is a Temp
\* datagram to the multicast group; the first accepted Ack sets peerAddress
\* to its source (with the configured port), a Temp datagram sent once
\* peerAddress is set goes there, and from then on peerAddress stays that
\* Ack's source, so that every following Temp datagram goes to it.
C32_Original ==
    [][ variant = "force_feed" =>
          /\ ForcedStartStep =>
                /\ state' = CONNECTED
                /\ server_address' = NoAddress
                /\ out' # <<>> =>
                      /\ EventOf(out'[1]) = EVENT_TEMP
                      /\ out'[1].to = MulticastTarget
          /\ (ReadStep /\ ReadOutcome(variant, rx') = "accepted"
                  /\ server_address = NoAddress) =>
                server_address' = <<rx'.addr[1], SERVER_PORT>>
          /\ (SendsNow(EVENT_TEMP) /\ server_address # NoAddress) =>
                out'[1].to = server_address
          /\ server_address # NoAddress => server_address' = server_address ]_vars

====
